---- MODULE Spec2Model ----
(***************************************************************************)
(* Model of the cebl-sdk request layer: the endpoint registry loaded from  *)
(* config.json, validate_params, build_url, make_request (cebl/utils.py),  *)
(* the CEBLClient operations (cebl/client.py) and the shot extraction of   *)
(* CEBLGameDataProvider (cebl/gamestats.py).                               *)
(*                                                                         *)
(* Every call is synchronous, so one action is one complete call: it draws *)
(* the caller's arguments and the server's answers, and leaves behind the  *)
(* call's outcome (op, args, raised, ret), the GETs it issued, in order    *)
(* (net), and the diagnostics it logged (log).  fetched remembers, across   *)
(* calls, the years whose team list earlier calls have requested.          *)
(***************************************************************************)
EXTENDS Integers, Sequences, FiniteSets, TLC

VARIABLES config, client, op, args, raised, ret, net, log, fetched

vars == <<config, client, op, args, raised, ret, net, log, fetched>>

----------------------------------------------------------------------------
(* Bounds of the model *)

\* largest number of keys of a parameter mapping passed directly to
\* validate_params, build_url or make_request
MaxParams == 2
\* largest number of records in a teams response
MaxTeams == 2
\* largest number of records in any other JSON array response
MaxRows == 1
\* largest number of shots of one team in a game detail
MaxShots == 1
\* largest number of games in the game list of a season
MaxGames == 2

----------------------------------------------------------------------------
(* Python values: None, str and int.  A value is a record with a type tag. *)

NoneV == [t |-> "none", s |-> "", n |-> 0]
S(x) == [t |-> "str", s |-> x, n |-> 0]
I(k) == [t |-> "int", s |-> "", n |-> k]

\* bool(value), as used by "if x:" and "not x"
Truthy(v) ==
    CASE v.t = "none" -> FALSE
      [] v.t = "str" -> v.s # ""
      [] v.t = "int" -> v.n # 0

\* str(value); format(value, "") is the same string for str and int
Str(v) == IF v.t = "int" THEN ToString(v.n) ELSE IF v.t = "none" THEN "None" ELSE v.s

\* an empty dict
EmptyDict == <<>>

\* F applied to the value of v, which is computed once
Bind(v, F(_)) == CHOOSE y \in {F(x) : x \in {v}} : TRUE

\* the keys of a dict in the order the loop visits them
RECURSIVE KeySeq(_)
KeySeq(K) == IF K = {} THEN <<>> ELSE LET k == CHOOSE x \in K : TRUE IN <<k>> \o KeySeq(K \ {k})

\* Exceptions: the Python type and which raise statement produced it
NoExc == [type |-> "none", msg |-> ""]
Exc(type, msg) == [type |-> type, msg |-> msg]

ErrEndpointNotFound == Exc("ValueError", "endpoint_not_found")
ErrInvalidParams == Exc("ValueError", "invalid_parameters")
ErrMissingPathArg == Exc("KeyError", "missing_path_argument")
ErrTeamNotFound == Exc("ValueError", "team_not_found")
ErrApiKey == Exc("ValueError", "api_key_must_be_provided")

----------------------------------------------------------------------------
(* The endpoint registry (config.json) *)

Lit(x) == [ph |-> FALSE, s |-> x]
Ph(x) == [ph |-> TRUE, s |-> x]

YearType == {"2019", "2020", "2021", "2022", "2023", "2024", "2025"}
ModeType == {"PER_GAME", "TOTALS"}
PlayerStatisticsCompetitionType == {"REGULAR", "FINALS"}
AggregatedStatisticsCompetitionType == {"REGULAR", "PLAYOFFS"}
PlayerSegmentType == {"EAST", "WEST", "HOME", "AWAY"}
TeamSegmentType == {"HOME", "AWAY", "L7D", "L5G", "L10G", "May", "June", "July", "August"}

\* the bundled configuration: base_url and the six endpoints the client uses
BundledEndpoints ==
    [games |-> [path |-> <<Lit("/games/"), Ph("year")>>,
                params |-> [year |-> YearType]],
     teams |-> [path |-> <<Lit("/teams/"), Ph("year")>>,
                params |-> [year |-> YearType]],
     player_statistics |->
               [path |-> <<Lit("/players/"), Ph("player_id"), Lit("/statistics")>>,
                params |-> [mode |-> ModeType, career_only |-> {},
                            competition |-> PlayerStatisticsCompetitionType]],
     players_statistics_aggregated |->
               [path |-> <<Lit("/players/statistics/aggregated")>>,
                params |-> [season |-> YearType, mode |-> ModeType,
                            competition |-> AggregatedStatisticsCompetitionType,
                            segment |-> PlayerSegmentType]],
     team_roster |->
               [path |-> <<Lit("/teams/"), Ph("team_id"), Lit("/roster/"), Ph("year")>>,
                params |-> [year |-> YearType]],
     teams_statistics_aggregated |->
               [path |-> <<Lit("/teams/statistics/aggregated")>>,
                params |-> [season |-> YearType, mode |-> ModeType,
                            competition |-> AggregatedStatisticsCompetitionType,
                            segment |-> TeamSegmentType]]]

\* a configuration resource with malformed entries besides the bundled ones:
\* an empty entry, an entry without a path and an entry without params
MalformedEndpoints ==
    [n \in DOMAIN BundledEndpoints \cup {"empty_entry", "no_path", "no_params"} |->
        CASE n = "empty_entry" -> EmptyDict
          [] n = "no_path" -> [params |-> [mode |-> ModeType]]
          [] n = "no_params" -> [path |-> <<Lit("/status")>>]
          [] OTHER -> BundledEndpoints[n]]

Configs ==
    {[base_url |-> "https://api.data.cebl.ca", endpoints |-> e] :
        e \in {BundledEndpoints, MalformedEndpoints}}

BASE_URL == config.base_url
ENDPOINTS == config.endpoints

----------------------------------------------------------------------------
(* cebl/utils.py *)

\* the diagnostics of logging.error, by the statement that emits them
LogEntry(kind, key) == [kind |-> kind, key |-> key]

\* validate_params: the loop over params.items(), one key per step
RECURSIVE validate_loop(_, _, _, _)
validate_loop(valid_params, params, keys, acc) ==
    IF keys = <<>> THEN acc
    ELSE LET key == Head(keys)
             value == params[key]
             ignore_keys == {"team_id", "player_id"}
             next ==
                IF key \in ignore_keys THEN acc
                ELSE IF key \notin DOMAIN valid_params
                THEN [all_valid |-> FALSE,
                      log |-> Append(acc.log, LogEntry("param_not_valid", key))]
                ELSE LET valid_values == valid_params[key]
                     IN IF valid_values # {} /\ Str(value) \notin valid_values
                        THEN [all_valid |-> FALSE,
                              log |-> Append(acc.log, LogEntry("value_not_valid", key))]
                        ELSE acc
         IN validate_loop(valid_params, params, Tail(keys), next)

\* validate_params checking only that each key is declared
validate_params_keys_only(endpoint_config, params) ==
    LET valid_params == IF "params" \in DOMAIN endpoint_config
                        THEN endpoint_config.params ELSE EmptyDict
        bad == KeySeq({k \in DOMAIN params : k \notin DOMAIN valid_params})
    IN [all_valid |-> bad = <<>>,
        log |-> [i \in 1..Len(bad) |-> LogEntry("param_not_valid", bad[i])],
        endpoint_config |-> endpoint_config, params |-> params]

\* validate_params returning at the first key that fails
validate_params_first_failure(endpoint_config, params) ==
    LET valid_params == IF "params" \in DOMAIN endpoint_config
                        THEN endpoint_config.params ELSE EmptyDict
        full == validate_loop(valid_params, params, KeySeq(DOMAIN params),
                              [all_valid |-> TRUE, log |-> <<>>])
    IN [all_valid |-> full.all_valid,
        log |-> IF full.log = <<>> THEN <<>> ELSE <<Head(full.log)>>,
        endpoint_config |-> endpoint_config, params |-> params]

\* validate_params reading the allowed values with
\* endpoint_config.setdefault("params", {}), which adds the key to an entry
\* that lacks it
validate_params_setdefault(endpoint_config, params) ==
    LET valid_params == IF "params" \in DOMAIN endpoint_config
                        THEN endpoint_config.params ELSE EmptyDict
        checked == validate_loop(valid_params, params, KeySeq(DOMAIN params),
                                 [all_valid |-> TRUE, log |-> <<>>])
    IN [all_valid |-> checked.all_valid, log |-> checked.log,
        endpoint_config |->
            [k \in DOMAIN endpoint_config \cup {"params"} |->
                IF k = "params" THEN valid_params ELSE endpoint_config[k]],
        params |-> params]

\* validate_params(endpoint_config, params): the result and the diagnostics,
\* and the two objects it was handed as the call leaves them; it reads the
\* registry entry with .get and the mapping with .items(), and assigns to
\* neither
validate_params(endpoint_config, params) ==
    LET valid_params == IF "params" \in DOMAIN endpoint_config
                        THEN endpoint_config.params ELSE EmptyDict
        checked == validate_loop(valid_params, params, KeySeq(DOMAIN params),
                                 [all_valid |-> TRUE, log |-> <<>>])
    IN [all_valid |-> checked.all_valid, log |-> checked.log,
        endpoint_config |-> endpoint_config, params |-> params]

\* str.format(**kwargs) on a path template: the text so far, or KeyError at
\* the first placeholder that has no argument
RECURSIVE format_from(_, _, _, _)
format_from(path, kwargs, i, text) ==
    IF i > Len(path) THEN [raised |-> NoExc, ret |-> text]
    ELSE IF path[i].ph /\ path[i].s \notin DOMAIN kwargs
    THEN [raised |-> ErrMissingPathArg, ret |-> ""]
    ELSE format_from(path, kwargs, i + 1,
                     text \o (IF path[i].ph THEN Str(kwargs[path[i].s]) ELSE path[i].s))

format(path, kwargs) == format_from(path, kwargs, 1, "")

\* ENDPOINTS.get(endpoint_name) is usable: present, non-empty, with a path
EndpointUsable(endpoint_name) ==
    /\ endpoint_name \in DOMAIN ENDPOINTS
    /\ DOMAIN ENDPOINTS[endpoint_name] # {}
    /\ "path" \in DOMAIN ENDPOINTS[endpoint_name]

\* build_url validating before it looks for the path template
build_url_validate_first(endpoint_name, kwargs) ==
    IF endpoint_name \notin DOMAIN ENDPOINTS
    THEN [raised |-> ErrEndpointNotFound, ret |-> "", log |-> <<>>, formatted |-> FALSE]
    ELSE LET v == validate_params(ENDPOINTS[endpoint_name], kwargs)
         IN IF ~v.all_valid
            THEN [raised |-> ErrInvalidParams, ret |-> "", log |-> v.log, formatted |-> FALSE]
            ELSE IF ~EndpointUsable(endpoint_name)
            THEN [raised |-> ErrEndpointNotFound, ret |-> "", log |-> v.log,
                  formatted |-> FALSE]
            ELSE LET path == format(ENDPOINTS[endpoint_name].path, kwargs)
                 IN [raised |-> path.raised,
                     ret |-> IF path.raised = NoExc THEN BASE_URL \o path.ret ELSE "",
                     log |-> v.log, formatted |-> TRUE]

\* build_url formatting the path before it validates
build_url_format_first(endpoint_name, kwargs) ==
    IF ~EndpointUsable(endpoint_name)
    THEN [raised |-> ErrEndpointNotFound, ret |-> "", log |-> <<>>, formatted |-> FALSE]
    ELSE LET path == format(ENDPOINTS[endpoint_name].path, kwargs)
             v == validate_params(ENDPOINTS[endpoint_name], kwargs)
         IN IF path.raised # NoExc
            THEN [raised |-> path.raised, ret |-> "", log |-> <<>>, formatted |-> TRUE]
            ELSE IF ~v.all_valid
            THEN [raised |-> ErrInvalidParams, ret |-> "", log |-> v.log, formatted |-> TRUE]
            ELSE [raised |-> NoExc, ret |-> BASE_URL \o path.ret,
                  log |-> v.log, formatted |-> TRUE]

\* build_url joining base and path with a separator of its own
build_url_extra_slash(endpoint_name, kwargs) ==
    IF ~EndpointUsable(endpoint_name)
    THEN [raised |-> ErrEndpointNotFound, ret |-> "", log |-> <<>>, formatted |-> FALSE]
    ELSE LET path == format(ENDPOINTS[endpoint_name].path, kwargs)
             v == validate_params(ENDPOINTS[endpoint_name], kwargs)
         IN IF ~v.all_valid
            THEN [raised |-> ErrInvalidParams, ret |-> "", log |-> v.log, formatted |-> FALSE]
            ELSE IF path.raised # NoExc
            THEN [raised |-> path.raised, ret |-> "", log |-> v.log, formatted |-> TRUE]
            ELSE [raised |-> NoExc, ret |-> BASE_URL \o "/" \o path.ret,
                  log |-> v.log, formatted |-> TRUE]

\* build_url(endpoint_name, **kwargs): the URL or the exception, the
\* diagnostics logged on the way, and whether the path was formatted
build_url(endpoint_name, kwargs) ==
    IF ~EndpointUsable(endpoint_name)
    THEN [raised |-> ErrEndpointNotFound, ret |-> "", log |-> <<>>, formatted |-> FALSE]
    ELSE LET endpoint == ENDPOINTS[endpoint_name]
             v == validate_params(endpoint, kwargs)
         IN IF ~v.all_valid
            THEN [raised |-> ErrInvalidParams, ret |-> "", log |-> v.log, formatted |-> FALSE]
            ELSE LET path == format(endpoint.path, kwargs)
                 IN IF path.raised # NoExc
                    THEN [raised |-> path.raised, ret |-> "", log |-> v.log, formatted |-> TRUE]
                    ELSE [raised |-> NoExc, ret |-> BASE_URL \o path.ret,
                          log |-> v.log, formatted |-> TRUE]

\* one GET as requests.get sees it
Get(url, headers, params) == [url |-> url, headers |-> headers, params |-> params]

\* what the server, or the transport, answers to one GET
HttpResponse(status_code, json) == [kind |-> "http", status_code |-> status_code, json |-> json]
RequestException(name) == [kind |-> name, status_code |-> 0, json |-> <<>>]

\* the default timeout of make_request, in seconds
timeout == 20

\* make_request(url, headers, endpoint_name, params): the decoded JSON or
\* None (none = TRUE), or the exception; net is the GETs issued
\* make_request trying a second time after a failure
make_request_retry(url, headers, endpoint_name, params, response) ==
    [raised |-> NoExc, none |-> response.kind # "http" \/ response.status_code # 200,
     json |-> IF response.kind = "http" /\ response.status_code = 200
              THEN response.json ELSE <<>>,
     net |-> IF response.kind = "http" /\ response.status_code = 200
             THEN <<Get(url, headers, params)>>
             ELSE <<Get(url, headers, params), Get(url, headers, params)>>,
     log |-> <<>>]

make_request(url, headers, endpoint_name, params, response) ==
    LET rejected(e, lg) == [raised |-> e, none |-> TRUE, json |-> <<>>,
                            net |-> <<>>, log |-> lg]
        v == validate_params(ENDPOINTS[endpoint_name.s], params)
        request ==
            IF response.kind # "http"
            THEN [raised |-> NoExc, none |-> TRUE, json |-> <<>>,
                  net |-> <<Get(url, headers, params)>>,
                  log |-> <<LogEntry("request_failed", url)>>]
            ELSE IF response.status_code = 200
            THEN [raised |-> NoExc, none |-> FALSE, json |-> response.json,
                  net |-> <<Get(url, headers, params)>>, log |-> <<>>]
            ELSE [raised |-> NoExc, none |-> TRUE, json |-> <<>>,
                  net |-> <<Get(url, headers, params)>>,
                  log |-> <<LogEntry("status_code", url)>>]
    IN IF Truthy(endpoint_name)
       THEN IF endpoint_name.s \notin DOMAIN ENDPOINTS
               \/ DOMAIN ENDPOINTS[endpoint_name.s] = {}
            THEN rejected(ErrEndpointNotFound, <<>>)
            ELSE IF ~v.all_valid
            THEN rejected(ErrInvalidParams, v.log)
            ELSE [request EXCEPT !.log = v.log \o request.log]
       ELSE request

----------------------------------------------------------------------------
(* cebl/client.py *)

\* A team name is a sequence of characters; an optional one may be None.
NoName == [none |-> TRUE, chars |-> <<>>]
Name(chars) == [none |-> FALSE, chars |-> chars]
NameTruthy(name) == ~name.none /\ name.chars # <<>>

\* str.lower(), character by character
LowerChar(c) ==
    CASE c = "A" -> "a" [] c = "C" -> "c" [] c = "D" -> "d"
      [] c = "E" -> "e" [] c = "X" -> "x" [] OTHER -> c
\* a comparison that keeps the case
lower_identity(chars) == chars
lower(chars) == [i \in 1..Len(chars) |-> LowerChar(chars[i])]

\* add or replace one key of a dict
Put(d, k, v) == [x \in DOMAIN d \cup {k} |-> IF x = k THEN v ELSE d[x]]

\* the outcome of one client call: the exception or the table, the GETs
\* issued and the diagnostics logged
Outcome(e, rows, n, lg) == [raised |-> e, rows |-> rows, net |-> n, log |-> lg]

\* "pd.DataFrame(data) if data else pd.DataFrame()": the rows of the table
DataFrame(m) == IF ~m.none /\ m.json # <<>> THEN m.json ELSE <<>>

\* the tail every operation shares: build_url, make_request, the table and
\* the diagnostic for an empty one; before is what the call did so far
Fetch(headers, endpoint, kwargs, params, response, before) ==
    Bind(build_url(endpoint, kwargs), LAMBDA b :
      IF b.raised # NoExc
      THEN Outcome(b.raised, <<>>, before.net, before.log \o b.log)
      ELSE Bind(make_request(b.ret, headers, S(endpoint), params, response), LAMBDA m :
        IF m.raised # NoExc
        THEN Outcome(m.raised, <<>>, before.net \o m.net, before.log \o b.log \o m.log)
        ELSE Outcome(NoExc, DataFrame(m), before.net \o m.net,
                     before.log \o b.log \o m.log
                       \o (IF DataFrame(m) = <<>> THEN <<LogEntry("no_data", endpoint)>>
                           ELSE <<>>))))

Nothing == Outcome(NoExc, <<>>, <<>>, <<>>)

\* the headers CEBLClient.__init__ builds
ClientHeaders(CEBL_API_KEY) ==
    [x \in {"X-Api-Key", "Accept", "Origin", "User-Agent"} |->
        CASE x = "X-Api-Key" -> CEBL_API_KEY.s
          [] x = "Accept" -> "application/json, text/plain, */*"
          [] x = "Origin" -> "https://cebl-stats-hub.web.app"
          [] x = "User-Agent" ->
                "Mozilla/5.0 (Windows NT 10.0; Win64; x64)"
                \o " AppleWebKit/537.36 (KHTML, like Gecko)"
                \o " Chrome/91.0.4472.124 Safari/537.36"]

\* CEBLClient.__init__ rejecting only a key that is None
CEBLClient_init_none_only(CEBL_API_KEY) ==
    IF CEBL_API_KEY.t = "none"
    THEN [raised |-> ErrApiKey, headers |-> EmptyDict]
    ELSE [raised |-> NoExc, headers |-> ClientHeaders(CEBL_API_KEY)]

\* CEBLClient.__init__: the headers of the new client, or the exception
CEBLClient_init(CEBL_API_KEY) ==
    IF ~Truthy(CEBL_API_KEY)
    THEN [raised |-> ErrApiKey, headers |-> EmptyDict]
    ELSE [raised |-> NoExc, headers |-> ClientHeaders(CEBL_API_KEY)]

get_teams(headers, year, response) ==
    Fetch(headers, "teams", [year |-> year], EmptyDict, response, Nothing)

\* the loop of __get_team_id over teams.iterrows(): the index of the first
\* row that matches, 0 if none does
RECURSIVE first_match(_, _, _)
first_match(teams, team_name, i) ==
    IF i > Len(teams) THEN 0
    ELSE IF lower(teams[i].name_en) = lower(team_name)
            \/ lower(teams[i].short_name_en) = lower(team_name)
         THEN i
         ELSE first_match(teams, team_name, i + 1)

\* __get_team_id answering from the team list of an earlier call when that
\* year's list was requested before
get_team_id_cached(headers, team_name, year, response) ==
    Bind(get_teams(headers, year, response), LAMBDA teams :
      Bind(IF Str(year) \in fetched THEN <<>> ELSE teams.net, LAMBDA requests :
        IF teams.raised # NoExc
        THEN [raised |-> teams.raised, id |-> 0, net |-> requests, log |-> teams.log,
              teams |-> <<>>]
        ELSE Bind(first_match(teams.rows, team_name.chars, 1), LAMBDA i :
          IF i = 0
          THEN [raised |-> ErrTeamNotFound, id |-> 0, net |-> requests, log |-> teams.log,
                teams |-> teams.rows]
          ELSE [raised |-> NoExc, id |-> teams.rows[i].id, net |-> requests,
                log |-> teams.log, teams |-> teams.rows])))

\* __get_team_id(team_name, year): id is the team id found
get_team_id(headers, team_name, year, response) ==
    Bind(get_teams(headers, year, response), LAMBDA teams :
      IF teams.raised # NoExc
      THEN [raised |-> teams.raised, id |-> 0, net |-> teams.net, log |-> teams.log,
            teams |-> <<>>]
      ELSE Bind(first_match(teams.rows, team_name.chars, 1), LAMBDA i :
        IF i = 0
        THEN [raised |-> ErrTeamNotFound, id |-> 0, net |-> teams.net, log |-> teams.log,
              teams |-> teams.rows]
        ELSE [raised |-> NoExc, id |-> teams.rows[i].id, net |-> teams.net,
              log |-> teams.log, teams |-> teams.rows]))

get_games(headers, year, team_name, r_teams, r_games) ==
    IF ~NameTruthy(team_name)
    THEN Fetch(headers, "games", [year |-> year], EmptyDict, r_games, Nothing)
    ELSE Bind(get_team_id(headers, team_name, year, r_teams), LAMBDA t :
      IF t.raised = NoExc
      THEN Fetch(headers, "games", [year |-> year], [team_id |-> I(t.id)], r_games,
                 Outcome(NoExc, <<>>, t.net, t.log))
      ELSE IF t.raised.type = "ValueError"
      THEN Fetch(headers, "games", [year |-> year], EmptyDict, r_games,
                 Outcome(NoExc, <<>>, t.net,
                         Append(t.log, LogEntry("error_retrieving_team_id", t.raised.msg))))
      ELSE Outcome(t.raised, <<>>, t.net, t.log))

get_player_statistics(headers, player_id, mode, career_only, competition, response) ==
    LET base == [mode |-> mode, career_only |-> S(IF career_only THEN "true" ELSE "false")]
        params == IF Truthy(competition) THEN Put(base, "competition", competition) ELSE base
    IN Fetch(headers, "player_statistics", [player_id |-> S(Str(player_id))], params,
             response, Nothing)

\* the query parameters get_player_statistics_aggregated and
\* get_team_statistics_aggregated start from
AggregatedParams(season, mode, competition, segment) ==
    LET base == [season |-> season, mode |-> mode]
        withc == IF Truthy(competition) THEN Put(base, "competition", competition) ELSE base
    IN IF Truthy(segment) THEN Put(withc, "segment", segment) ELSE withc

get_player_statistics_aggregated(headers, season, mode, competition, segment, team_short_name, r_teams, response) ==
    LET p == AggregatedParams(season, mode, competition, segment)
    IN IF ~NameTruthy(team_short_name)
       THEN Fetch(headers, "players_statistics_aggregated", EmptyDict, p, response, Nothing)
       ELSE Bind(get_team_id(headers, team_short_name, season, r_teams), LAMBDA t :
         IF t.raised # NoExc
         THEN Outcome(t.raised, <<>>, t.net, t.log)
         ELSE Fetch(headers, "players_statistics_aggregated", EmptyDict,
                    Put(p, "team_id", S(Str(I(t.id)))), response,
                    Outcome(NoExc, <<>>, t.net, t.log)))

get_team_roster(headers, team_short_name, year, r_teams, response) ==
    Bind(get_team_id(headers, team_short_name, year, r_teams), LAMBDA t :
      IF t.raised # NoExc
      THEN Outcome(t.raised, <<>>, t.net, t.log)
      ELSE Fetch(headers, "team_roster", [team_id |-> S(Str(I(t.id))), year |-> year],
                 EmptyDict, response, Outcome(NoExc, <<>>, t.net, t.log)))

get_team_statistics_aggregated(headers, season, mode, competition, segment, response) ==
    Fetch(headers, "teams_statistics_aggregated", EmptyDict,
          AggregatedParams(season, mode, competition, segment), response, Nothing)

----------------------------------------------------------------------------
(* cebl/gamestats.py *)

\* CEBLGameDataProvider.__init__
provider_headers ==
    [x \in {"Accept", "User-Agent", "Sec-Ch-Ua", "Sec-Ch-Ua-Mobile", "Sec-Ch-Ua-Platform"} |->
        CASE x = "Accept" -> "application/json, text/plain, */*"
          [] x = "User-Agent" ->
                "Mozilla/5.0 (Windows NT 10.0; Win64; x64) AppleWebKit/537.36"
                \o " (KHTML, like Gecko) Chrome/91.0.4472.124 Safari/537.36"
          [] x = "Sec-Ch-Ua" ->
                "\"Not/A)Brand\";v=\"8\", \"Chromium\";v=\"126\", \"Google Chrome\";v=\"126\""
          [] x = "Sec-Ch-Ua-Mobile" -> "?0"
          [] x = "Sec-Ch-Ua-Platform" -> "\"Windows\""]
data_url_base == "https://fibalivestats.dcd.shared.geniussports.com/data"

\* str.split(sep) of a string given as its characters: the segments, each a
\* sequence of characters
RECURSIVE split_from(_, _, _, _, _)
split_from(chars, sep, i, segments, segment) ==
    IF i > Len(chars) THEN Append(segments, segment)
    ELSE IF chars[i] = sep
    THEN split_from(chars, sep, i + 1, Append(segments, segment), <<>>)
    ELSE split_from(chars, sep, i + 1, segments, Append(segment, chars[i]))

split(chars, sep) == split_from(chars, sep, 1, <<>>, <<>>)

\* the string whose characters are chars
RECURSIVE Join(_)
Join(chars) == IF chars = <<>> THEN "" ELSE Head(chars) \o Join(Tail(chars))

\* get_game_data(stats_url): the JSON or None, or the exception that leaves
\* the except block, whose log call reads data_url before it is assigned
\* when split("/")[-2] raised
get_game_data(stats_url, response) ==
    Bind(split(stats_url, "/"), LAMBDA segments :
      IF Len(segments) < 2
      THEN [raised |-> Exc("UnboundLocalError", "data_url"), none |-> TRUE,
            json |-> <<>>, net |-> <<>>, log |-> <<>>]
      ELSE Bind(data_url_base \o "/" \o Join(segments[Len(segments) - 1]) \o "/data.json",
                LAMBDA data_url :
        Bind(make_request(data_url, provider_headers, NoneV, EmptyDict, response),
             LAMBDA game_data :
          IF game_data.none \/ game_data.json = <<>>
          THEN [game_data EXCEPT
                   !.log = Append(@, LogEntry("failed_to_fetch_game_data", data_url))]
          ELSE game_data)))

\* pd.DataFrame(shot list): the rows
ShotFrame(shots) == shots

\* game_data["tm"][slot]["shot"] raises no KeyError
HasShots(game_data, slot) ==
    /\ "tm" \in DOMAIN game_data
    /\ slot \in DOMAIN game_data.tm
    /\ "shot" \in DOMAIN game_data.tm[slot]

\* the pair get_shot_data returns, with what the call did
ShotData(e, home, away, n, lg) ==
    [raised |-> e, home |-> home, away |-> away, net |-> n, log |-> lg]

\* get_shot_data keeping the side whose shot list is present
get_shot_data_partial(stats_url, response) ==
    Bind(get_game_data(stats_url, response), LAMBDA g :
      ShotData(g.raised,
               IF HasShots(g.json, "1") THEN ShotFrame(g.json.tm["1"].shot) ELSE <<>>,
               IF HasShots(g.json, "2") THEN ShotFrame(g.json.tm["2"].shot) ELSE <<>>,
               g.net, g.log))

\* get_shot_data(stats_url): the pair of shot tables
get_shot_data(stats_url, response) ==
    Bind(get_game_data(stats_url, response), LAMBDA g :
      IF g.raised # NoExc
      THEN ShotData(g.raised, <<>>, <<>>, g.net, g.log)
      ELSE IF g.none \/ g.json = <<>>
      THEN ShotData(NoExc, <<>>, <<>>, g.net,
                    Append(g.log, LogEntry("no_game_data", stats_url)))
      ELSE IF ~HasShots(g.json, "1") \/ ~HasShots(g.json, "2")
      THEN ShotData(NoExc, <<>>, <<>>, g.net,
                    Append(g.log, LogEntry("error_extracting_shot_data", stats_url)))
      ELSE ShotData(NoExc, ShotFrame(g.json.tm["1"].shot), ShotFrame(g.json.tm["2"].shot),
                    g.net,
                    g.log
                      \o (IF ShotFrame(g.json.tm["1"].shot) = <<>>
                          THEN <<LogEntry("home_shots_empty", stats_url)>> ELSE <<>>)
                      \o (IF ShotFrame(g.json.tm["2"].shot) = <<>>
                          THEN <<LogEntry("away_shots_empty", stats_url)>> ELSE <<>>)))

\* the test of the loops over games.iterrows(): the game is complete and
\* team_name is its home or its away team, compared as written
qualifies(game, team_name) ==
    /\ game.status = "COMPLETE"
    /\ \/ game.home_team_name = team_name.chars
       \/ game.away_team_name = team_name.chars

\* pd.concat(frames, ignore_index=True): the rows of the frames, in order
RECURSIVE concat(_)
concat(frames) == IF frames = <<>> THEN <<>> ELSE Head(frames) \o concat(Tail(frames))

\* what a loop over the games has done so far: the exception that ended it,
\* the tables appended, the GETs issued and the diagnostics logged
Progress(e, frames, n, lg) == [raised |-> e, frames |-> frames, net |-> n, log |-> lg]

\* one pass of the loop body of get_team_shot_data; detail is the answers of
\* the detail service to the first and the second request for this game
team_shots_step(game, detail, team_name, acc) ==
    IF ~qualifies(game, team_name) THEN acc
    ELSE Bind(get_game_data(game.stats_url_en, detail[1]), LAMBDA game_data :
      IF game_data.raised # NoExc
      THEN Progress(game_data.raised, acc.frames, acc.net \o game_data.net,
                    acc.log \o game_data.log)
      ELSE IF game_data.none \/ game_data.json = <<>>
      THEN Progress(NoExc, acc.frames, acc.net \o game_data.net, acc.log \o game_data.log)
      ELSE Bind(get_shot_data(game.stats_url_en, detail[2]), LAMBDA d :
        Progress(d.raised,
                 Append(acc.frames,
                        IF game.home_team_name = team_name.chars THEN d.home ELSE d.away),
                 acc.net \o game_data.net \o d.net,
                 acc.log \o game_data.log \o d.log)))

RECURSIVE team_shots_loop(_, _, _, _, _)
team_shots_loop(games, details, team_name, i, acc) ==
    IF i > Len(games) \/ acc.raised # NoExc THEN acc
    ELSE Bind(team_shots_step(games[i], details[i], team_name, acc), LAMBDA a :
           team_shots_loop(games, details, team_name, i + 1, a))

\* get_team_shot_data(client, year, team_name); headers are the client's,
\* r_teams and r_games the answers to the requests of client.get_games
get_team_shot_data(headers, year, team_name, r_teams, r_games, details) ==
    Bind(get_games(headers, year, team_name, r_teams, r_games), LAMBDA games :
      IF games.raised # NoExc
      THEN Outcome(NoExc, <<>>, games.net,
                   Append(games.log,
                          LogEntry("error_retrieving_team_shot_data", games.raised.type)))
      ELSE Bind(team_shots_loop(games.rows, details, team_name, 1,
                                Progress(NoExc, <<>>, games.net, games.log)), LAMBDA l :
        IF l.raised # NoExc
        THEN Outcome(NoExc, <<>>, l.net,
                     Append(l.log,
                            LogEntry("error_retrieving_team_shot_data", l.raised.type)))
        ELSE Bind(concat(l.frames), LAMBDA team_shots_df :
          Outcome(NoExc, team_shots_df, l.net,
                  l.log
                    \o (IF l.frames = <<>>
                        THEN <<LogEntry("no_shot_data_found", team_name.chars)>> ELSE <<>>)
                    \o (IF team_shots_df = <<>>
                        THEN <<LogEntry("resulting_dataframe_empty", team_name.chars)>>
                        ELSE <<>>)))))

\* shots[shots["player"] == player_name]: the rows of that player, or the
\* KeyError of a table that has no "player" column because it has no rows
player_rows(shots, player_name) ==
    IF shots = <<>>
    THEN [raised |-> Exc("KeyError", "player"), rows |-> <<>>]
    ELSE [raised |-> NoExc, rows |-> SelectSeq(shots, LAMBDA r : r.player = player_name)]

\* one pass of the loop body of get_player_shot_data
player_shots_step(game, detail, team_name, player_name, acc) ==
    IF ~qualifies(game, team_name) THEN acc
    ELSE Bind(get_game_data(game.stats_url_en, detail[1]), LAMBDA game_data :
      IF game_data.raised # NoExc
      THEN Progress(game_data.raised, acc.frames, acc.net \o game_data.net,
                    acc.log \o game_data.log)
      ELSE IF game_data.none \/ game_data.json = <<>>
      THEN Progress(NoExc, acc.frames, acc.net \o game_data.net, acc.log \o game_data.log)
      ELSE Bind(get_shot_data(game.stats_url_en, detail[2]), LAMBDA d :
        IF d.raised # NoExc
        THEN Progress(d.raised, acc.frames, acc.net \o game_data.net \o d.net,
                      acc.log \o game_data.log \o d.log)
        ELSE Bind(player_rows(IF game.home_team_name = team_name.chars
                              THEN d.home ELSE d.away, player_name), LAMBDA shots :
          Progress(shots.raised,
                   IF shots.raised = NoExc THEN Append(acc.frames, shots.rows)
                   ELSE acc.frames,
                   acc.net \o game_data.net \o d.net,
                   acc.log \o game_data.log \o d.log))))

RECURSIVE player_shots_loop(_, _, _, _, _, _)
player_shots_loop(games, details, team_name, player_name, i, acc) ==
    IF i > Len(games) \/ acc.raised # NoExc THEN acc
    ELSE Bind(player_shots_step(games[i], details[i], team_name, player_name, acc),
              LAMBDA a :
           player_shots_loop(games, details, team_name, player_name, i + 1, a))

\* get_player_shot_data(client, year, team_name, player_name)
get_player_shot_data(headers, year, team_name, player_name, r_teams, r_games, details) ==
    Bind(get_games(headers, year, team_name, r_teams, r_games), LAMBDA games :
      IF games.raised # NoExc
      THEN Outcome(NoExc, <<>>, games.net,
                   Append(games.log,
                          LogEntry("error_retrieving_player_shot_data", games.raised.type)))
      ELSE Bind(player_shots_loop(games.rows, details, team_name, player_name, 1,
                                  Progress(NoExc, <<>>, games.net, games.log)), LAMBDA l :
        IF l.raised # NoExc
        THEN Outcome(NoExc, <<>>, l.net,
                     Append(l.log,
                            LogEntry("error_retrieving_player_shot_data", l.raised.type)))
        ELSE Bind(concat(l.frames), LAMBDA player_shots_df :
          Outcome(NoExc, player_shots_df, l.net,
                  l.log
                    \o (IF l.frames = <<>>
                        THEN <<LogEntry("no_shot_data_found", player_name)>> ELSE <<>>)
                    \o (IF player_shots_df = <<>>
                        THEN <<LogEntry("resulting_dataframe_empty", player_name)>>
                        ELSE <<>>)))))

----------------------------------------------------------------------------
(* The arguments callers pass and the answers servers give *)

\* all sequences over S of length at most n
RECURSIVE SeqsUpTo(_, _)
SeqsUpTo(X, n) ==
    IF n = 0 THEN {<<>>}
    ELSE LET shorter == SeqsUpTo(X, n - 1)
         IN shorter \cup {Append(q, x) : q \in shorter, x \in X}

ParamKeys == {"year", "mode", "team_id", "limit"}
ParamValues == {S("2024"), I(2024), S("PER_GAME"), S("BOGUS")}
ParamMaps ==
    UNION {[K -> ParamValues] : K \in {K \in SUBSET ParamKeys : Cardinality(K) <= MaxParams}}

ApiKeys == {NoneV, S(""), S("key-1"), S("key-2")}
YearArgs == {S("2024"), I(2024), S("1999")}
SeasonArgs == {I(2024), S("1999")}
ModeArgs == {S("PER_GAME"), S("BOGUS")}
CompetitionArgs == {NoneV, S("FINALS")}
SegmentArgs == {NoneV, S("EAST")}
PlayerIds == {I(145)}
TeamNameArgs == {Name(<<>>), Name(<<"c", "a">>), Name(<<"E", "d">>), Name(<<"X", "x">>)}

\* the ids the teams endpoint gives its records, by position in the list
TeamIds == <<7, 3, 5, 9>>
TeamRecords(i) ==
    [id : {TeamIds[i]}, name_en : {<<"C", "a">>, <<"E", "d">>},
     short_name_en : {<<"C", "A">>, <<"e", "D">>}]
RECURSIVE TeamLists(_)
TeamLists(n) ==
    IF n = 0 THEN {<<>>}
    ELSE LET shorter == TeamLists(n - 1)
         IN shorter \cup {Append(q, x) : q \in {l \in shorter : Len(l) = n - 1},
                                          x \in TeamRecords(n)}

Rows == SeqsUpTo({[id |-> 1]}, MaxRows)

ShotLists == SeqsUpTo({[player |-> "p1"], [player |-> "p2"]}, MaxShots)
\* one team slot of a game detail: absent, without a shot list, or with one
Slots == {EmptyDict} \cup {[shot |-> l] : l \in ShotLists}
\* the "tm" object of a game detail, with any of its two slots absent
TeamSlots ==
    UNION {[K -> Slots] : K \in SUBSET {"1", "2"}}
GameDetails == {EmptyDict, [clock |-> "00:00"]} \cup {[tm |-> t] : t \in TeamSlots}

\* the answers to one GET whose 200 body is drawn from bodies
Responses(bodies) ==
    {HttpResponse(200, b) : b \in bodies}
    \cup {HttpResponse(404, <<>>), RequestException("ConnectionError")}

\* the same, with the other status codes and transport failures
AllResponses(bodies) ==
    Responses(bodies) \cup {HttpResponse(500, <<>>), RequestException("Timeout")}

StatsUrls ==
    {<<"u", "/", "7", "/">>, <<"u", "/", "7">>, <<"7">>, <<>>}

\* the game ids of the reference URLs of a game list, by position in the list
GameIds == <<"1", "2", "3", "4">>
StatsUrl(i) == <<"u", "/", GameIds[i], "/">>

\* game details with shots of both teams, and with other shots
Shot(player, x) == [player |-> player, x |-> x]
DetailA ==
    [tm |-> ("1" :> [shot |-> <<Shot("p1", 1), Shot("p2", 2)>>])
            @@ ("2" :> [shot |-> <<Shot("p2", 3)>>])]
DetailB ==
    [tm |-> ("1" :> [shot |-> <<Shot("p2", 4)>>])
            @@ ("2" :> [shot |-> <<Shot("p1", 5), Shot("p1", 6)>>])]
\* a game detail without team slot "2", and one whose home team has no shot
DetailNoAway == [tm |-> ("1" :> [shot |-> <<Shot("p1", 7)>>])]
DetailNoHomeShot ==
    [tm |-> ("1" :> [shot |-> <<>>]) @@ ("2" :> [shot |-> <<Shot("p1", 8)>>])]

\* the answers of the detail service to the first and to the second request
\* for one game
DetailAnswers ==
    {<<HttpResponse(200, DetailA), HttpResponse(200, DetailA)>>,
     <<HttpResponse(200, DetailA), HttpResponse(200, DetailB)>>,
     <<HttpResponse(200, DetailA), HttpResponse(404, <<>>)>>,
     <<HttpResponse(200, DetailA), HttpResponse(200, DetailNoAway)>>,
     <<HttpResponse(200, DetailA), HttpResponse(200, DetailNoHomeShot)>>,
     <<HttpResponse(404, <<>>), HttpResponse(200, DetailA)>>,
     <<HttpResponse(200, EmptyDict), HttpResponse(200, DetailA)>>}

Game(status, home, away, url) ==
    [status |-> status, home_team_name |-> home, away_team_name |-> away,
     stats_url_en |-> url]

\* the i-th game of a season with the answers of the detail service for it:
\* a game of team "Ed" at home with every pair of answers, as the away team,
\* not yet played, with a reference URL of one segment, and a game of others
Fixtures(i) ==
    {[game |-> Game("COMPLETE", <<"E", "d">>, <<"C", "a">>, StatsUrl(i)), details |-> d] :
        d \in DetailAnswers}
    \cup {[game |-> g, details |-> <<HttpResponse(200, DetailA), HttpResponse(200, DetailA)>>] :
        g \in {Game("COMPLETE", <<"C", "a">>, <<"E", "d">>, StatsUrl(i)),
               Game("SCHEDULED", <<"E", "d">>, <<"C", "a">>, StatsUrl(i)),
               Game("COMPLETE", <<"E", "d">>, <<"C", "a">>, <<GameIds[i]>>),
               Game("COMPLETE", <<"C", "a">>, <<"C", "a">>, StatsUrl(i))}}
    \cup {[game |-> Game("COMPLETE", <<"C", "a">>, <<"E", "d">>, StatsUrl(i)),
           details |-> <<HttpResponse(200, DetailA), HttpResponse(404, <<>>)>>]}

RECURSIVE Seasons(_)
Seasons(n) ==
    IF n = 0 THEN {<<>>}
    ELSE LET shorter == Seasons(n - 1)
         IN shorter \cup {Append(q, x) : q \in {l \in shorter : Len(l) = n - 1},
                                          x \in Fixtures(n)}

\* the team and the player whose shots are asked for, and the answers of the
\* teams endpoint to the resolution of the team
SeasonTeamArgs == {Name(<<"E", "d">>), Name(<<"e", "d">>)}
PlayerNameArgs == {"p1", "p3"}
SeasonTeams ==
    {HttpResponse(200, <<[id |-> TeamIds[1], name_en |-> <<"E", "d">>,
                          short_name_en |-> <<"E", "D">>]>>),
     HttpResponse(404, <<>>)}

----------------------------------------------------------------------------
(* The state machine *)

Idle == op = "idle"

Init ==
    /\ config \in Configs
    /\ client = [constructed |-> FALSE, headers |-> EmptyDict]
    /\ op = "idle"
    /\ args = <<>>
    /\ raised = NoExc
    /\ ret = <<>>
    /\ net = <<>>
    /\ log = <<>>
    /\ fetched = {}

\* the record of a call of a function or method that leaves the client as it is
Call(name, a, e, r, n, lg) ==
    /\ op' = name
    /\ args' = a
    /\ raised' = e
    /\ ret' = r
    /\ net' = n
    /\ log' = lg
    /\ UNCHANGED <<config, client, fetched>>

\* client = CEBLClient(CEBL_API_KEY)
Construct ==
    /\ Idle
    /\ \E key \in ApiKeys :
        \E c \in {CEBLClient_init(key)} :
           /\ op' = "CEBLClient"
           /\ args' = [CEBL_API_KEY |-> key]
           /\ raised' = c.raised
           /\ ret' = c.headers
           /\ client' = IF c.raised = NoExc
                        THEN [constructed |-> TRUE, headers |-> c.headers]
                        ELSE client
           /\ net' = <<>>
           /\ log' = <<>>
           /\ UNCHANGED <<config, fetched>>

\* validate_params(ENDPOINTS[name], params): the function is handed the
\* registry's own entry and the caller's own mapping, so the entry and the
\* mapping are afterwards what the call made of them
ValidateParams ==
    /\ Idle
    /\ \E name \in DOMAIN ENDPOINTS, params \in ParamMaps :
        \E v \in {validate_params(ENDPOINTS[name], params)} :
           /\ op' = "validate_params"
           /\ args' = [endpoint |-> name, params |-> params, params_after |-> v.params]
           /\ raised' = NoExc
           /\ ret' = v.all_valid
           /\ net' = <<>>
           /\ log' = v.log
           /\ config' = [config EXCEPT !.endpoints[name] = v.endpoint_config]
           /\ UNCHANGED <<client, fetched>>

BuildUrl ==
    /\ Idle
    /\ \E name \in DOMAIN ENDPOINTS \cup {"standings"}, kwargs \in ParamMaps :
        \E b \in {build_url(name, kwargs)} :
           Call("build_url", [endpoint_name |-> name, kwargs |-> kwargs],
                b.raised, b, <<>>, b.log)

MakeRequest ==
    /\ Idle
    /\ \E name \in {NoneV, S("standings")} \cup {S(n) : n \in DOMAIN ENDPOINTS},
       params \in ParamMaps, response \in AllResponses(Rows) :
        \E m \in {make_request(BASE_URL \o "/x", client.headers, name, params, response)} :
           Call("make_request",
                [endpoint_name |-> name, params |-> params, response |-> response],
                m.raised, m, m.net, m.log)

\* the record of a call of a client method; o is its outcome
ClientCall(name, a, outcome) ==
    \E o \in {outcome} : Call(name, a, o.raised, o.rows, o.net, o.log)

GetGames ==
    /\ Idle
    /\ client.constructed
    /\ \E year \in YearArgs, team_name \in TeamNameArgs \cup {NoName},
       r_teams \in Responses(TeamLists(MaxTeams)), r_games \in Responses(Rows) :
        ClientCall("get_games",
                   [year |-> year, team_name |-> team_name,
                    r_teams |-> r_teams, response |-> r_games],
                   get_games(client.headers, year, team_name, r_teams, r_games))

GetTeams ==
    /\ Idle
    /\ client.constructed
    /\ \E year \in YearArgs, response \in Responses(TeamLists(MaxTeams)) :
        ClientCall("get_teams", [year |-> year, response |-> response],
                   get_teams(client.headers, year, response))

\* the name-mangled CEBLClient.__get_team_id, as the name-scoped methods call it
GetTeamId ==
    /\ Idle
    /\ client.constructed
    /\ \E team_name \in TeamNameArgs, year \in YearArgs,
          response \in Responses(TeamLists(MaxTeams)) :
        \E t \in {get_team_id(client.headers, team_name, year, response)} :
          Call("get_team_id",
               [team_name |-> team_name, year |-> year, response |-> response],
               t.raised, t.id, t.net, t.log)

GetPlayerStatistics ==
    /\ Idle
    /\ client.constructed
    /\ \E player_id \in PlayerIds, mode \in ModeArgs, career_only \in BOOLEAN,
       competition \in CompetitionArgs, response \in Responses(Rows) :
        ClientCall("get_player_statistics",
                   [player_id |-> player_id, mode |-> mode, career_only |-> career_only,
                    competition |-> competition, response |-> response],
                   get_player_statistics(client.headers, player_id, mode, career_only,
                                         competition, response))

GetPlayerStatisticsAggregated ==
    /\ Idle
    /\ client.constructed
    /\ \E season \in SeasonArgs, mode \in ModeArgs, competition \in CompetitionArgs,
       segment \in SegmentArgs, team_short_name \in TeamNameArgs \cup {NoName},
       r_teams \in Responses(TeamLists(MaxTeams)), response \in Responses(Rows) :
        ClientCall("get_player_statistics_aggregated",
                   [season |-> season, mode |-> mode, competition |-> competition,
                    segment |-> segment, team_name |-> team_short_name,
                    r_teams |-> r_teams, response |-> response],
                   get_player_statistics_aggregated(client.headers, season, mode,
                        competition, segment, team_short_name, r_teams, response))

GetTeamRoster ==
    /\ Idle
    /\ client.constructed
    /\ \E team_short_name \in TeamNameArgs, year \in YearArgs,
       r_teams \in Responses(TeamLists(MaxTeams)), response \in Responses(Rows) :
        ClientCall("get_team_roster",
                   [team_name |-> team_short_name, year |-> year,
                    r_teams |-> r_teams, response |-> response],
                   get_team_roster(client.headers, team_short_name, year, r_teams, response))

GetTeamStatisticsAggregated ==
    /\ Idle
    /\ client.constructed
    /\ \E season \in SeasonArgs, mode \in ModeArgs, competition \in CompetitionArgs,
       segment \in SegmentArgs, response \in Responses(Rows) :
        ClientCall("get_team_statistics_aggregated",
                   [season |-> season, mode |-> mode, competition |-> competition,
                    segment |-> segment, response |-> response],
                   get_team_statistics_aggregated(client.headers, season, mode,
                        competition, segment, response))

GetGameData ==
    /\ Idle
    /\ \E stats_url \in StatsUrls, response \in Responses(GameDetails) :
        \E g \in {get_game_data(stats_url, response)} :
          Call("get_game_data", [stats_url |-> stats_url, response |-> response],
               g.raised, g, g.net, g.log)

GetShotData ==
    /\ Idle
    /\ \E stats_url \in StatsUrls, response \in Responses(GameDetails) :
        \E d \in {get_shot_data(stats_url, response)} :
          Call("get_shot_data", [stats_url |-> stats_url, response |-> response],
               d.raised, <<d.home, d.away>>, d.net, d.log)

\* provider.get_team_shot_data(client, year, team_name)
GetTeamShotData ==
    /\ Idle
    /\ client.constructed
    /\ \E year \in SeasonArgs, team_name \in SeasonTeamArgs, r_teams \in SeasonTeams,
          season \in Seasons(MaxGames) :
        \E games_found \in (IF season = <<>> THEN BOOLEAN ELSE {TRUE}) :
        \E r_games \in {IF games_found
                        THEN HttpResponse(200, [i \in 1..Len(season) |-> season[i].game])
                        ELSE HttpResponse(404, <<>>)},
           details \in {[i \in 1..Len(season) |-> season[i].details]} :
          ClientCall("get_team_shot_data",
                     [year |-> year, team_name |-> team_name, r_teams |-> r_teams,
                      response |-> r_games, details |-> details],
                     get_team_shot_data(client.headers, year, team_name, r_teams,
                                        r_games, details))

\* provider.get_player_shot_data(client, year, team_name, player_name)
GetPlayerShotData ==
    /\ Idle
    /\ client.constructed
    /\ \E year \in SeasonArgs, team_name \in SeasonTeamArgs, r_teams \in SeasonTeams,
          player_name \in PlayerNameArgs, season \in Seasons(MaxGames) :
        \E games_found \in (IF season = <<>> THEN BOOLEAN ELSE {TRUE}) :
        \E r_games \in {IF games_found
                        THEN HttpResponse(200, [i \in 1..Len(season) |-> season[i].game])
                        ELSE HttpResponse(404, <<>>)},
           details \in {[i \in 1..Len(season) |-> season[i].details]} :
          ClientCall("get_player_shot_data",
                     [year |-> year, team_name |-> team_name, player_name |-> player_name,
                      r_teams |-> r_teams, response |-> r_games, details |-> details],
                     get_player_shot_data(client.headers, year, team_name, player_name,
                                          r_teams, r_games, details))

\* the years whose team list the requests of a call asked for
TeamListsRequested(requests) ==
    {year \in YearType :
        \E i \in 1..Len(requests) : requests[i].url = BASE_URL \o "/teams/" \o year}

\* the caller takes the result; the next call starts from a clean record
Return ==
    /\ ~Idle
    /\ op' = "idle"
    /\ args' = <<>>
    /\ raised' = NoExc
    /\ ret' = <<>>
    /\ net' = <<>>
    /\ log' = <<>>
    /\ fetched' = fetched \cup TeamListsRequested(net)
    /\ UNCHANGED <<config, client>>

Next ==
    \/ Construct
    \/ ValidateParams
    \/ BuildUrl
    \/ MakeRequest
    \/ GetGames
    \/ GetTeams
    \/ GetTeamId
    \/ GetPlayerStatistics
    \/ GetPlayerStatisticsAggregated
    \/ GetTeamRoster
    \/ GetTeamStatisticsAggregated
    \/ GetGameData
    \/ GetShotData
    \/ GetTeamShotData
    \/ GetPlayerShotData
    \/ Return

Spec == Init /\ [][Next]_vars

----------------------------------------------------------------------------
(* Properties *)

\* the allowed-value sets an endpoint declares, none if it has no params
Declared(endpoint_name) ==
    IF "params" \in DOMAIN config.endpoints[endpoint_name]
    THEN config.endpoints[endpoint_name].params ELSE EmptyDict

\* the string form of a value
Text(v) == IF v.t = "int" THEN ToString(v.n) ELSE v.s

\* every key is ignored, or declared with an allowed-value set that is empty
\* or holds the string form of the value
Permitted(endpoint_name, params) ==
    \A k \in DOMAIN params :
        \/ k \in {"team_id", "player_id"}
        \/ /\ k \in DOMAIN Declared(endpoint_name)
           /\ \/ Declared(endpoint_name)[k] = {}
              \/ Text(params[k]) \in Declared(endpoint_name)[k]

\* the registry has no usable entry of that name: no entry, an empty one, or
\* one without a path template
NotInRegistry(endpoint_name) ==
    \/ endpoint_name \notin DOMAIN config.endpoints
    \/ config.endpoints[endpoint_name] = EmptyDict
    \/ "path" \notin DOMAIN config.endpoints[endpoint_name]

\* the placeholders of an endpoint's path template
Placeholders(endpoint_name) ==
    {config.endpoints[endpoint_name].path[i].s :
        i \in {j \in 1..Len(config.endpoints[endpoint_name].path) :
                  config.endpoints[endpoint_name].path[j].ph}}

\* C1: validate_params returns true if and only if every key of the mapping
\* is in the ignore-list {team_id, player_id} or is declared by the schema
\* with an allowed-value set that is empty or contains the string form of the
\* value; with mode declared as {PER_GAME, TOTALS}, {mode: PER_GAME} is
\* accepted and {mode: BOGUS} is rejected, and ignored keys are accepted even
\* when the schema does not declare them.
C1_ValidateParamsIff ==
    op = "validate_params" =>
        /\ ret = Permitted(args.endpoint, args.params)
        /\ (/\ "mode" \in DOMAIN Declared(args.endpoint)
            /\ Declared(args.endpoint).mode = {"PER_GAME", "TOTALS"})
           => /\ args.params = [mode |-> S("PER_GAME")] => ret = TRUE
              /\ args.params = [mode |-> S("BOGUS")] => ret = FALSE
        /\ DOMAIN args.params \subseteq {"team_id", "player_id"} => ret = TRUE

C1_Witness ==
    /\ op = "validate_params"
    /\ args.endpoint = "games"
    /\ args.params = [year |-> I(2024), team_id |-> S("BOGUS")]
    /\ ret = TRUE

\* C2: for an endpoint name that is not in the registry, or whose entry is
\* empty or lacks a path template, build_url fails with the
\* endpoint-not-found error whatever the path arguments, before it validates
\* (no diagnostic), substitutes, or issues a request.
C2_UnknownEndpointFailsFirst ==
    (op = "build_url" /\ NotInRegistry(args.endpoint_name)) =>
        /\ raised = ErrEndpointNotFound
        /\ ret.ret = ""
        /\ ~ret.formatted
        /\ log = <<>>
        /\ net = <<>>

C2_Witness ==
    /\ op = "build_url"
    /\ args.endpoint_name = "no_path"
    /\ args.kwargs = [mode |-> S("BOGUS"), limit |-> I(2024)]
    /\ raised = ErrEndpointNotFound

\* C3: in build_url validation precedes substitution: path arguments that
\* fail validation give the invalid-parameter error with no placeholder
\* substituted, even if a placeholder also lacks its argument; path arguments
\* that pass validation but leave a placeholder without an argument give the
\* missing-path-argument error and no URL.
C3_ValidationBeforeSubstitution ==
    (op = "build_url" /\ ~NotInRegistry(args.endpoint_name)) =>
        /\ ~Permitted(args.endpoint_name, args.kwargs) =>
              /\ raised = ErrInvalidParams
              /\ ~ret.formatted
              /\ ret.ret = ""
        /\ (/\ Permitted(args.endpoint_name, args.kwargs)
            /\ ~(Placeholders(args.endpoint_name) \subseteq DOMAIN args.kwargs)) =>
              /\ raised = ErrMissingPathArg
              /\ ret.ret = ""

C3_Witness ==
    /\ op = "build_url"
    /\ args.endpoint_name = "games"
    /\ args.kwargs = [limit |-> S("BOGUS")]
    /\ raised = ErrInvalidParams
    /\ ~ret.formatted

\* the URL of an endpoint, written out: the base address, then the path with
\* its placeholders filled in
UrlOf(endpoint_name, kwargs) ==
    CASE endpoint_name = "games" ->
            "https://api.data.cebl.ca" \o "/games/" \o Text(kwargs.year)
      [] endpoint_name = "teams" ->
            "https://api.data.cebl.ca" \o "/teams/" \o Text(kwargs.year)
      [] endpoint_name = "player_statistics" ->
            "https://api.data.cebl.ca" \o "/players/" \o Text(kwargs.player_id)
                \o "/statistics"
      [] endpoint_name = "players_statistics_aggregated" ->
            "https://api.data.cebl.ca/players/statistics/aggregated"
      [] endpoint_name = "team_roster" ->
            "https://api.data.cebl.ca" \o "/teams/" \o Text(kwargs.team_id)
                \o "/roster/" \o Text(kwargs.year)
      [] endpoint_name = "teams_statistics_aggregated" ->
            "https://api.data.cebl.ca/teams/statistics/aggregated"
      [] endpoint_name = "no_params" -> "https://api.data.cebl.ca/status"

\* C4: for a registered endpoint and path arguments that pass validation and
\* cover all placeholders, build_url returns exactly the base address followed
\* by the path template with each placeholder replaced by the string form of
\* its argument: "games" with year "2024" or 2024 gives <base>/games/2024.
C4_BuildUrlExact ==
    (/\ op = "build_url"
     /\ ~NotInRegistry(args.endpoint_name)
     /\ Permitted(args.endpoint_name, args.kwargs)
     /\ Placeholders(args.endpoint_name) \subseteq DOMAIN args.kwargs) =>
        /\ raised = NoExc
        /\ ret.ret = UrlOf(args.endpoint_name, args.kwargs)
        /\ (/\ args.endpoint_name = "games"
            /\ args.kwargs \in {[year |-> S("2024")], [year |-> I(2024)]})
           => ret.ret = "https://api.data.cebl.ca/games/2024"

C4_Witness ==
    /\ op = "build_url"
    /\ args.endpoint_name = "games"
    /\ args.kwargs = [year |-> I(2024)]
    /\ raised = NoExc
    /\ ret.ret = "https://api.data.cebl.ca/games/2024"

\* make_request rejects the call before any request: an endpoint name was
\* given and it is unknown or the query parameters fail its validation
RejectedBeforeRequest(endpoint_name, params) ==
    /\ Truthy(endpoint_name)
    /\ \/ endpoint_name.s \notin DOMAIN config.endpoints
       \/ config.endpoints[endpoint_name.s] = EmptyDict
       \/ ~Permitted(endpoint_name.s, params)

\* C5: make_request issues exactly one GET and never a second one; on status
\* 200 it returns the decoded JSON body, and on any other status code or any
\* transport failure it returns None and raises nothing.  (A call that names
\* an endpoint whose validation rejects it issues no GET at all.)
C5_SingleGetSoftFailure ==
    op = "make_request" =>
        /\ Len(net) <= 1
        /\ ~RejectedBeforeRequest(args.endpoint_name, args.params) =>
              /\ raised = NoExc
              /\ net = <<Get(BASE_URL \o "/x", client.headers, args.params)>>
              /\ (args.response.kind = "http" /\ args.response.status_code = 200) =>
                    (~ret.none /\ ret.json = args.response.json)
              /\ ~(args.response.kind = "http" /\ args.response.status_code = 200) =>
                    ret.none

C5_Witness ==
    /\ op = "make_request"
    /\ args.response = RequestException("Timeout")
    /\ raised = NoExc
    /\ ret.none
    /\ Len(net) = 1

\* the query parameters a client call builds from its typed arguments, and
\* the endpoint they are validated against
MainEndpoint ==
    CASE op = "get_games" -> "games"
      [] op = "get_teams" -> "teams"
      [] op = "get_player_statistics" -> "player_statistics"
      [] op = "get_player_statistics_aggregated" -> "players_statistics_aggregated"
      [] op = "get_team_roster" -> "team_roster"
      [] op = "get_team_statistics_aggregated" -> "teams_statistics_aggregated"

CallerParams ==
    CASE op \in {"get_games", "get_teams", "get_team_roster"} -> [year |-> args.year]
      [] op = "get_player_statistics" ->
            [k \in {"mode"} \cup (IF args.competition = NoneV THEN {} ELSE {"competition"}) |->
                IF k = "mode" THEN args.mode ELSE args.competition]
      [] op \in {"get_player_statistics_aggregated", "get_team_statistics_aggregated"} ->
            [k \in {"season", "mode"}
                   \cup (IF args.competition = NoneV THEN {} ELSE {"competition"})
                   \cup (IF args.segment = NoneV THEN {} ELSE {"segment"}) |->
                CASE k = "season" -> args.season
                  [] k = "mode" -> args.mode
                  [] k = "competition" -> args.competition
                  [] k = "segment" -> args.segment]

ClientOps ==
    {"get_games", "get_teams", "get_player_statistics", "get_player_statistics_aggregated",
     "get_team_roster", "get_team_statistics_aggregated"}

\* C6: for every client operation, a call whose caller-supplied parameters
\* fail validation raises the invalid-parameter error and has issued no
\* network request, also when a team name is supplied and must be resolved.
C6_InvalidParamsNoRequest ==
    (op \in ClientOps /\ ~Permitted(MainEndpoint, CallerParams)) =>
        /\ raised = ErrInvalidParams
        /\ net = <<>>

\* two strings are equal ignoring letter case
CasePairs ==
    {<<"a", "A">>, <<"c", "C">>, <<"d", "D">>, <<"e", "E">>, <<"x", "X">>}
EqualIgnoringCase(a, b) ==
    /\ Len(a) = Len(b)
    /\ \A i \in 1..Len(a) :
          \/ a[i] = b[i]
          \/ <<a[i], b[i]>> \in CasePairs
          \/ <<b[i], a[i]>> \in CasePairs

\* the team list a teams response amounts to: empty after a failed fetch
TeamListOf(response) ==
    IF response.kind = "http" /\ response.status_code = 200 THEN response.json ELSE <<>>

\* the positions of the teams whose full or short name is team_name
Matches(teams, team_name) ==
    {i \in 1..Len(teams) :
        \/ EqualIgnoringCase(teams[i].name_en, team_name.chars)
        \/ EqualIgnoringCase(teams[i].short_name_en, team_name.chars)}

Min(X) == CHOOSE x \in X : \A y \in X : x <= y

\* C7: team resolution returns the id of the first team, in list order,
\* whose full or short name equals team_name ignoring case, and fails with
\* the team-not-found error if and only if no team of the list (empty after
\* a failed fetch) matches either field.
C7_TeamResolution ==
    (op = "get_team_id" /\ net # <<>>) =>
        LET teams == TeamListOf(args.response)
            found == Matches(teams, args.team_name)
        IN /\ (raised = ErrTeamNotFound) <=> (found = {})
           /\ found # {} => (raised = NoExc /\ ret = teams[Min(found)].id)

C7_Witness ==
    /\ op = "get_team_id"
    /\ args.team_name = Name(<<"c", "a">>)
    /\ Len(TeamListOf(args.response)) = 2
    /\ Matches(TeamListOf(args.response), args.team_name) = {1, 2}
    /\ TeamListOf(args.response)[1].name_en # <<"C", "a">>
    /\ raised = NoExc
    /\ ret = TeamIds[1]

\* C8: for every operation scoped by team name, when team resolution fails
\* the operation does not propagate the failure: it logs and still issues its
\* main request without the team filter, and returns that request's table.
C8_ResolutionFailureDegrades ==
    (/\ \/ op \in {"get_games", "get_player_statistics_aggregated"}
           /\ NameTruthy(args.team_name)
        \/ op = "get_team_roster"
     /\ Permitted(MainEndpoint, CallerParams)
     /\ Matches(TeamListOf(args.r_teams), args.team_name) = {}) =>
        /\ raised = NoExc
        /\ Len(net) = 2
        /\ "team_id" \notin DOMAIN net[2].params
        /\ ret = TeamListOf(args.response)
        /\ \E i \in 1..Len(log) : log[i].kind = "error_retrieving_team_id"

\* C9: constructing the client with an absent or empty API key fails with a
\* configuration error, with no request issued and no client produced; with a
\* non-empty key it succeeds, issues no request, and the headers carry the key
\* unchanged in the API-key header.
C9_ApiKeyRequired ==
    op = "CEBLClient" =>
        /\ net = <<>>
        /\ args.CEBL_API_KEY \in {NoneV, S("")} =>
              /\ raised = ErrApiKey
              /\ ret = EmptyDict
        /\ args.CEBL_API_KEY \notin {NoneV, S("")} =>
              /\ raised = NoExc
              /\ client.constructed
              /\ client.headers = ret
              /\ client.headers["X-Api-Key"] = args.CEBL_API_KEY.s

C9_Witness ==
    /\ op = "CEBLClient"
    /\ args.CEBL_API_KEY = S("")
    /\ raised = ErrApiKey
    /\ client.constructed
    /\ client.headers["X-Api-Key"] = "key-2"

\* the detail JSON of the call has team slot "1" with its shot list and no
\* team slot "2"
OnlySlotOne ==
    /\ op = "get_shot_data"
    /\ net # <<>>
    /\ args.response.kind = "http"
    /\ args.response.status_code = 200
    /\ "tm" \in DOMAIN args.response.json
    /\ DOMAIN args.response.json.tm = {"1"}
    /\ "shot" \in DOMAIN args.response.json.tm["1"]

\* C10 as stated: get_shot_data on a detail JSON with team slot "1" and its
\* shot list but without team slot "2" returns (home_shots, empty), home_shots
\* being the shots of slot "1", and does not raise.
C10_HomeShotsKept ==
    OnlySlotOne =>
        /\ raised = NoExc
        /\ ret = <<args.response.json.tm["1"].shot, <<>> >>

\* C10: get_shot_data on a detail JSON with team slot "1" and its shot list
\* but without team slot "2" returns the pair (empty, empty), the shots of
\* slot "1" included in neither, logs the extraction error and does not raise.
C10_EmptyPair ==
    OnlySlotOne =>
        /\ raised = NoExc
        /\ ret = << <<>>, <<>> >>
        /\ \E i \in 1..Len(log) : log[i].kind = "error_extracting_shot_data"

C10_Witness ==
    /\ OnlySlotOne
    /\ args.response.json.tm["1"].shot = <<[player |-> "p1"]>>
    /\ ret = << <<>>, <<>> >>

\* the slash-delimited segments of a reference URL, as strings
Segments(stats_url) ==
    LET cuts == <<0>> \o SelectSeq([i \in 1..Len(stats_url) |->
                                      IF stats_url[i] = "/" THEN i ELSE 0],
                                  LAMBDA i : i # 0)
                      \o <<Len(stats_url) + 1>>
    IN [k \in 1..(Len(cuts) - 1) |->
          Join(SubSeq(stats_url, cuts[k] + 1, cuts[k + 1] - 1))]

\* the answer is a 200
Succeeds(response) == response.kind = "http" /\ response.status_code = 200

\* C11: for every reference URL, those with fewer than two slash-delimited
\* segments and those without a trailing slash included, get_game_data never
\* raises: the game id is the second-to-last segment, the one GET goes to
\* <fixed base>/<game id>/data.json, and the result is the decoded JSON when
\* the request succeeds and None in every other case.
C11_GetGameDataNeverRaises ==
    op = "get_game_data" =>
        LET segments == Segments(args.stats_url)
        IN /\ raised = NoExc
           /\ Len(segments) < 2 => (ret.none /\ net = <<>>)
           /\ Len(segments) >= 2 =>
                 /\ net = <<Get("https://fibalivestats.dcd.shared.geniussports.com/data/"
                                  \o segments[Len(segments) - 1] \o "/data.json",
                                provider_headers, EmptyDict)>>
                 /\ Succeeds(args.response) =>
                       (~ret.none /\ ret.json = args.response.json)
                 /\ ~Succeeds(args.response) => ret.none

\* the game list a season call works on: the answer of the games endpoint,
\* none when the year is rejected or the request fails
GameListOf ==
    IF Permitted("games", [year |-> args.year]) /\ Succeeds(args.response)
    THEN args.response.json ELSE <<>>

\* the game is complete and team_name is its home or its away team
Involved(game) ==
    /\ game.status = "COMPLETE"
    /\ args.team_name.chars \in {game.home_team_name, game.away_team_name}

\* the first detail fetch of the i-th game gives a detail
FirstFetchSucceeds(i) ==
    Succeeds(args.details[i][1]) /\ args.details[i][1].json # EmptyDict

\* the shots of the target side in the detail the second fetch of the i-th
\* game gives: none when that fetch fails or a shot list is missing
TargetShots(i) ==
    LET answer == args.details[i][2]
        slot == IF GameListOf[i].home_team_name = args.team_name.chars THEN "1" ELSE "2"
    IN IF /\ Succeeds(answer)
          /\ "tm" \in DOMAIN answer.json
          /\ DOMAIN answer.json.tm = {"1", "2"}
          /\ \A t \in {"1", "2"} : "shot" \in DOMAIN answer.json.tm[t]
       THEN answer.json.tm[slot].shot
       ELSE <<>>

\* the shots of the games from the i-th on that count, in list order
RECURSIVE TeamShotsFrom(_)
TeamShotsFrom(i) ==
    IF i > Len(GameListOf) THEN <<>>
    ELSE (IF Involved(GameListOf[i]) /\ FirstFetchSucceeds(i) THEN TargetShots(i) ELSE <<>>)
         \o TeamShotsFrom(i + 1)

\* C12: get_team_shot_data returns the concatenation, in the order of the
\* season's game list, of the target side's shots (home shots when the home
\* team name equals team_name, otherwise away shots) of exactly the games
\* that are COMPLETE, involve team_name and whose detail fetch succeeded; no
\* shot of another game appears, and when no game qualifies the result is an
\* empty table returned without raising.
C12_TeamShotsInOrder ==
    op = "get_team_shot_data" =>
        /\ raised = NoExc
        /\ ret = TeamShotsFrom(1)

\* every game of the list that counts for team_name has a reference URL of
\* two segments or more
ReferenceUrlsWellFormed ==
    \A i \in 1..Len(GameListOf) :
        Involved(GameListOf[i]) => Len(Segments(GameListOf[i].stats_url_en)) >= 2

\* get_team_shot_data does what C12 says on every season whose reference
\* URLs are well formed
TeamShotsOfWellFormedSeasons ==
    (op = "get_team_shot_data" /\ ReferenceUrlsWellFormed) =>
        /\ raised = NoExc
        /\ ret = TeamShotsFrom(1)

\* the shots of player_name among the target side's shots of the games from
\* the i-th on that count, in list order
RECURSIVE PlayerShotsFrom(_)
PlayerShotsFrom(i) ==
    IF i > Len(GameListOf) THEN <<>>
    ELSE (IF Involved(GameListOf[i]) /\ FirstFetchSucceeds(i)
          THEN SelectSeq(TargetShots(i), LAMBDA shot : shot.player = args.player_name)
          ELSE <<>>)
         \o PlayerShotsFrom(i + 1)

\* C13: get_player_shot_data returns, in game-list order, exactly the shots
\* whose player field equals player_name taken from the target side of every
\* qualifying game; a qualifying game whose detail yields no shot data (empty
\* answer to the second fetch, or missing shot keys) contributes no row and
\* does not remove or prevent the rows of the other qualifying games.  (Stated
\* for the seasons whose reference URLs are well formed, where get_game_data
\* does not raise.)
C13_PlayerShotsInOrder ==
    (op = "get_player_shot_data" /\ ReferenceUrlsWellFormed) =>
        /\ raised = NoExc
        /\ ret = PlayerShotsFrom(1)

\* some game that counts yields no shot for the target side
SomeGameWithoutShots ==
    \E i \in 1..Len(GameListOf) :
        Involved(GameListOf[i]) /\ FirstFetchSucceeds(i) /\ TargetShots(i) = <<>>

\* get_player_shot_data does what C13 says when the reference URLs are well
\* formed and every game that counts has a shot of the target side, and
\* returns the empty table whenever a game that counts has none
PlayerShotsAllOrNothing ==
    (op = "get_player_shot_data" /\ ReferenceUrlsWellFormed) =>
        /\ raised = NoExc
        /\ ret = IF SomeGameWithoutShots THEN <<>> ELSE PlayerShotsFrom(1)

\* the call is scoped by a team name
NameScoped ==
    \/ op \in {"get_games", "get_player_statistics_aggregated"} /\ NameTruthy(args.team_name)
    \/ op = "get_team_roster"

\* the call is one that takes no team name, or was given none
NotNameScoped ==
    \/ op \in {"get_games", "get_player_statistics_aggregated"} /\ ~NameTruthy(args.team_name)
    \/ op \in {"get_player_statistics", "get_team_statistics_aggregated"}

\* the year of the call
CallYear == IF op = "get_player_statistics_aggregated" THEN args.season ELSE args.year

\* the URLs of the teams endpoint
TeamsUrls == {"https://api.data.cebl.ca/teams/" \o year : year \in YearType}

\* the request carries that team id: as a query parameter, or in the path of
\* the roster endpoint
CarriesTeamId(request, id) ==
    CASE op = "get_games" ->
            "team_id" \in DOMAIN request.params /\ request.params.team_id = I(id)
      [] op = "get_player_statistics_aggregated" ->
            "team_id" \in DOMAIN request.params
            /\ request.params.team_id = S(ToString(id))
      [] op = "get_team_roster" ->
            request.url = "https://api.data.cebl.ca/teams/" \o ToString(id)
                             \o "/roster/" \o Text(CallYear)

\* C14: over any sequence of client calls, every call scoped by a team name
\* (whose year the teams endpoint accepts) issues exactly one GET of the teams
\* endpoint for the call's year, before its dependent request, whether or not
\* earlier calls fetched that year's list (nothing is cached); the dependent
\* request, when one is issued, carries the team id found in that response;
\* a call with no team name issues no teams request and carries no team id.
C14_FreshResolution ==
    /\ (NameScoped /\ Permitted("teams", [year |-> CallYear])) =>
          LET teams == TeamListOf(args.r_teams)
              found == Matches(teams, args.team_name)
          IN /\ Len(net) \in {1, 2}
             /\ net[1] = Get("https://api.data.cebl.ca/teams/" \o Text(CallYear),
                             client.headers, EmptyDict)
             /\ \A i \in 2..Len(net) : net[i].url \notin TeamsUrls
             /\ (Len(net) = 2 /\ found # {}) => CarriesTeamId(net[2], teams[Min(found)].id)
             /\ (Len(net) = 2 /\ found = {}) => "team_id" \notin DOMAIN net[2].params
    /\ NotNameScoped =>
          \A i \in 1..Len(net) :
              net[i].url \notin TeamsUrls /\ "team_id" \notin DOMAIN net[i].params

C14_Witness ==
    /\ op = "get_team_roster"
    /\ Text(args.year) \in fetched
    /\ args.team_name = Name(<<"E", "d">>)
    /\ Len(net) = 2
    /\ net[1].url = "https://api.data.cebl.ca/teams/2024"
    /\ net[2].url = "https://api.data.cebl.ca/teams/3/roster/2024"

\* the keys of the mapping that are neither ignored nor declared, and the
\* declared ones whose value is not permitted
Unrecognized(endpoint_name, params) ==
    {k \in DOMAIN params \ {"team_id", "player_id"} : k \notin DOMAIN Declared(endpoint_name)}
NotPermitted(endpoint_name, params) ==
    {k \in (DOMAIN params \cap DOMAIN Declared(endpoint_name)) \ {"team_id", "player_id"} :
        /\ Declared(endpoint_name)[k] # {}
        /\ Text(params[k]) \notin Declared(endpoint_name)[k]}

\* C15: validate_params examines every key of the mapping and does not stop
\* at the first failure: the diagnostics are exactly one per violating key
\* (unrecognized, or with a value that is not permitted) and none for an
\* ignored or valid key, so their number is the number of violating keys; and
\* the result is false whenever a key is outside the declared set and not
\* ignored.
C15_OneDiagnosticPerViolation ==
    op = "validate_params" =>
        LET unrecognized == Unrecognized(args.endpoint, args.params)
            violating == unrecognized \cup NotPermitted(args.endpoint, args.params)
        IN /\ Len(log) = Cardinality(violating)
           /\ \A k \in violating :
                 Cardinality({i \in 1..Len(log) : log[i].key = k}) = 1
           /\ \A i \in 1..Len(log) :
                 /\ log[i].key \in violating
                 /\ (log[i].kind = "param_not_valid") <=> (log[i].key \in unrecognized)
           /\ unrecognized # {} => ret = FALSE

C15_Witness ==
    /\ op = "validate_params"
    /\ args.endpoint = "games"
    /\ args.params = [year |-> S("BOGUS"), limit |-> I(2024)]
    /\ Len(log) = 2
    /\ ret = FALSE

\* C16: whatever the operation and whether it succeeds or fails, no step
\* changes the endpoint registry (base address, path templates, allowed-value
\* sets), no step changes the headers of a client (only a successful
\* construction puts a new client in place), and validate_params leaves the
\* mapping it was given as it was; so after any sequence of operations they
\* are what they were after load and construction.
C16_RegistryAndHeadersUnchanged ==
    [][/\ config' = config
       /\ client' # client =>
             (op' = "CEBLClient" /\ raised' = NoExc /\ client'.headers = ret')
       /\ op' = "validate_params" => args'.params_after = args'.params]_vars

C16_Witness ==
    /\ op = "validate_params"
    /\ args.endpoint = "no_params"
    /\ args.params = [mode |-> S("BOGUS"), limit |-> I(2024)]
    /\ args.params_after = args.params
    /\ config.endpoints.no_params = [path |-> <<Lit("/status")>>]
    /\ fetched # {}
    /\ client = [constructed |-> TRUE, headers |-> ClientHeaders(S("key-1"))]

\* the number of requests of the call to the detail service for the i-th
\* game of the list
DetailRequests(i) ==
    LET segments == Segments(GameListOf[i].stats_url_en)
    IN IF Len(segments) < 2 THEN 0
       ELSE Cardinality({k \in 1..Len(net) :
                net[k].url = "https://fibalivestats.dcd.shared.geniussports.com/data/"
                                \o segments[Len(segments) - 1] \o "/data.json"})

\* the requests to the detail service are as C17 says: none for a game that
\* is not complete or does not involve team_name, one for a qualifying game
\* whose first fetch gives nothing, two for one whose first fetch succeeds
DetailRequestsAsClaimed ==
    \A i \in 1..Len(GameListOf) :
        DetailRequests(i) =
            IF ~Involved(GameListOf[i]) THEN 0
            ELSE IF ~FirstFetchSucceeds(i) THEN 1
            ELSE 2

\* C17: in get_team_shot_data and get_player_shot_data the detail service is
\* requested zero times for a game that is not COMPLETE or does not involve
\* team_name, once for a qualifying game whose first fetch returns nothing,
\* and exactly twice for a qualifying game whose first fetch succeeds; the
\* shots of a game are those of the second response, so a qualifying game
\* whose second fetch returns nothing contributes no shot although its first
\* fetch succeeded.  (Stated for the seasons whose reference URLs are well
\* formed, where get_game_data does not raise.)
C17_DetailFetchedTwice ==
    (op \in {"get_team_shot_data", "get_player_shot_data"} /\ ReferenceUrlsWellFormed) =>
        /\ DetailRequestsAsClaimed
        /\ ret = IF op = "get_team_shot_data" THEN TeamShotsFrom(1) ELSE PlayerShotsFrom(1)

\* get_team_shot_data does what C17 says on every season whose reference
\* URLs are well formed, and get_player_shot_data on those where, besides,
\* every game that counts has a shot of the target side
DetailFetchedTwiceUnlessAborted ==
    (/\ op \in {"get_team_shot_data", "get_player_shot_data"}
     /\ ReferenceUrlsWellFormed
     /\ op = "get_player_shot_data" => ~SomeGameWithoutShots) =>
        /\ DetailRequestsAsClaimed
        /\ ret = IF op = "get_team_shot_data" THEN TeamShotsFrom(1) ELSE PlayerShotsFrom(1)

====
